---------------------------- MODULE Spec2Model ----------------------------
(***************************************************************************)
(* A model of src/src/index.js (bezier-easing): the factory bezier(mX1,    *)
(* mY1, mX2, mY2), the sample table it fills, and the easing function it   *)
(* returns, with the parameter solver getTForX and its three refinement    *)
(* branches.                                                               *)
(*                                                                         *)
(* NUMBERS.  A JavaScript Number is an IEEE 754 binary64 value and is      *)
(* modelled as one: the record [s, e, m] stands for s * M * 2^e, where s   *)
(* is the sign (0 for zero) and M is the 53 bit significand, 2^52 <= M <   *)
(* 2^53, held in m as four limbs of 14 bits, least significant first.      *)
(* Every operation computes its exact result and rounds it to the nearest  *)
(* value, ties to even.  A store into a Float32Array rounds to 24 bits.    *)
(* The model has one zero (the program never divides by it and never       *)
(* tells -0 from 0), one value for NaN and the infinities (they come from  *)
(* a division by zero or a read of an unassigned slot only), and no limit  *)
(* on the exponent (the numbers of the program stay far from it).          *)
(***************************************************************************)
EXTENDS Integers, Sequences, FiniteSets, TLC

---------------------------------------------------------------------------
(* Natural numbers of any length, as sequences of limbs                    *)

Width == 14
Base == 2 ^ Width

\* a function over 1..n as the sequence of its values
Eager(f) == <<>> \o f

Limb(x, i) == IF i \in 1..Len(x) THEN x[i] ELSE 0

Longer(x, y) == IF Len(x) >= Len(y) THEN Len(x) ELSE Len(y)

NIsZero(x) == \A i \in 1..Len(x) : x[i] = 0

\* x < y
NLess(x, y) ==
  \E i \in 1..Longer(x, y) :
    /\ Limb(x, i) < Limb(y, i)
    /\ \A j \in (i + 1)..Longer(x, y) : Limb(x, j) = Limb(y, j)

\* x + y: limb i receives a carry when a limb below it overflows and all
\* limbs between are full
NAdd(x, y) ==
  LET n == Longer(x, y)
      s == Eager([i \in 1..n |-> Limb(x, i) + Limb(y, i)])
      carry(i) == \E j \in 1..(i - 1) :
                    s[j] >= Base /\ \A k \in (j + 1)..(i - 1) : s[k] = Base - 1
  IN  Eager([i \in 1..(n + 1) |->
               IF i <= n THEN (s[i] + (IF carry(i) THEN 1 ELSE 0)) % Base
               ELSE IF carry(i) THEN 1 ELSE 0])

\* x - y, for x >= y
NSub(x, y) ==
  LET n == Longer(x, y)
      borrow(i) == \E j \in 1..(i - 1) :
                     /\ Limb(x, j) < Limb(y, j)
                     /\ \A k \in (j + 1)..(i - 1) : Limb(x, k) = Limb(y, k)
  IN  Eager([i \in 1..n |->
               (Limb(x, i) - Limb(y, i) - (IF borrow(i) THEN 1 ELSE 0) + Base)
                 % Base])

\* x \div 2^n
NShr(x, n) ==
  LET q == n \div Width
      r == n % Width
  IN  Eager([i \in 1..Len(x) |->
               (Limb(x, i + q) \div (2 ^ r))
                 + (Limb(x, i + q + 1) % (2 ^ r)) * (2 ^ (Width - r))])

\* x * 2^n in len limbs
NShl(x, n, len) ==
  LET q == n \div Width
      r == n % Width
  IN  Eager([i \in 1..len |->
               ((Limb(x, i - q) * (2 ^ r)) % Base)
                 + (Limb(x, i - q - 1) \div (2 ^ (Width - r)))])

\* x % 2^n # 0
NLowNonZero(x, n) ==
  \/ \E i \in 1..(n \div Width) : Limb(x, i) # 0
  \/ Limb(x, n \div Width + 1) % (2 ^ (n % Width)) # 0

\* bit j of x, the lowest being bit 0
NBit(x, j) == (Limb(x, j \div Width + 1) \div (2 ^ (j % Width))) % 2

\* the number of bits of x
NBitLen(x) ==
  IF NIsZero(x) THEN 0
  ELSE LET top == CHOOSE i \in 1..Len(x) :
                    x[i] # 0 /\ \A j \in (i + 1)..Len(x) : x[j] = 0
       IN  Width * (top - 1)
             + Cardinality({k \in 0..(Width - 1) : 2 ^ k <= x[top]})

\* x * q for one limb q
NMulSmall(x, q) ==
  NAdd(Eager([i \in 1..Len(x) |-> (x[i] * q) % Base]),
       Eager([i \in 1..(Len(x) + 1) |->
                IF i = 1 THEN 0 ELSE (x[i - 1] * q) \div Base]))

\* how many limbs a significand has
Limbs == 4

\* x * y for two significands: the column sums, split into three numbers
NMul(x, y) ==
  LET c == Eager([k \in 1..(2 * Limbs - 1) |->
                    x[1] * Limb(y, k) + x[2] * Limb(y, k - 1)
                      + x[3] * Limb(y, k - 2) + x[4] * Limb(y, k - 3)])
      l == Eager([k \in 1..(2 * Limbs - 1) |-> c[k] % Base])
      m == Eager([k \in 1..(2 * Limbs) |->
                    IF k = 1 THEN 0 ELSE (c[k - 1] \div Base) % Base])
      h == Eager([k \in 1..(2 * Limbs + 1) |->
                    IF k <= 2 THEN 0 ELSE c[k - 2] \div (Base * Base)])
  IN  NAdd(NAdd(l, m), h)

\* the limb q0 was estimated for the quotient q, and r0 is left: q0 falls
\* short by one at most
Corrected(q, d, q0, r0) ==
  IF NLess(r0, d) THEN <<(<<q0>>) \o q, SubSeq(r0, 1, Limbs)>>
  ELSE <<(<<q0 + 1>>) \o q, SubSeq(NSub(r0, d), 1, Limbs)>>

\* one limb of a long division by the significand d: qr is the quotient so
\* far and the remainder.  The limb is estimated from the leading 31 bits
\* of the remainder and the leading 17 of d.
DivDigit(qr, d) ==
  LET r == <<0>> \o qr[2]
      rt == r[5] * (2 ^ 20) + r[4] * (2 ^ 6) + r[3] \div (2 ^ 8)
      dt == d[4] * (2 ^ 6) + d[3] \div (2 ^ 8)
      q0 == rt \div (dt + 1)
  IN  Corrected(qr[1], d, q0, NSub(r, NMulSmall(d, q0)))

\* <<(n * Base^Limbs) \div d, what is left>> for two significands
NDiv(n, d) ==
  LET first == ~NLess(n, d)
      qr0 == <<(<<IF first THEN 1 ELSE 0>>), IF first THEN NSub(n, d) ELSE n>>
  IN  DivDigit(DivDigit(DivDigit(DivDigit(qr0, d), d), d), d)

---------------------------------------------------------------------------
(* The Number type and its operators                                       *)

\* bits of the significand of a Number, and of a Float32Array element
Significand == 53
Single == 24

Zero == [s |-> 0, e |-> 0, m |-> <<0, 0, 0, 0>>]

\* NaN or an infinity
NotFinite == [s |-> 2, e |-> 0, m |-> <<0, 0, 0, 0>>]

\* an Array slot that was never assigned: no number, any comparison with it
\* is false and arithmetic on it gives NaN
Undefined == [s |-> 3, e |-> 0, m |-> <<0, 0, 0, 0>>]

IsNum(a) == a.s \in {-1, 0, 1}

\* s * m0 * 2^e for m0 of p bits, one more in the last place if up
Carried(s, e, m0, up, p) ==
  LET m1 == IF up THEN NAdd(m0, <<1>>) ELSE m0
      over == NBitLen(m1) > p
  IN  [s |-> s,
       e |-> e + (IF over THEN 1 ELSE 0) - (Significand - p),
       m |-> NShl(IF over THEN NShr(m1, 1) ELSE m1, Significand - p, Limbs)]

\* s * w * 2^e, and a bit more if sticky, rounded to p bits, ties to even,
\* for w of len bits
Rounded(s, e, w, sticky, p, len) ==
  IF len = 0 THEN Zero
  ELSE IF len <= p
    THEN [s |-> s, e |-> e - (Significand - len),
          m |-> NShl(w, Significand - len, Limbs)]
  ELSE Carried(s, e + (len - p), NShr(w, len - p),
               /\ NBit(w, len - p - 1) = 1
               /\ \/ sticky
                  \/ NLowNonZero(w, len - p - 1)
                  \/ NBit(w, len - p) = 1,
               p)

\* s * w * 2^e, and a bit more if sticky, rounded to p bits, ties to even
Round(s, e, w, sticky, p) == Rounded(s, e, w, sticky, p, NBitLen(w))

\* the Number of a small integer literal or loop counter
Num(n) ==
  LET k == IF n < 0 THEN -n ELSE n
  IN  Round(IF n < 0 THEN -1 ELSE 1, 0,
            <<k % Base, (k \div Base) % Base, k \div (Base * Base)>>,
            FALSE, Significand)

\* -a
Neg(a) == IF IsNum(a) THEN [a EXCEPT !.s = -a.s] ELSE a

\* Math.abs(a)
Abs(a) == IF IsNum(a) THEN [a EXCEPT !.s = a.s * a.s] ELSE a

\* a + b for a # 0, b # 0 and a.e >= b.e.  When b is too small to reach
\* the rounding bit of a, only the side it lies on matters.
AddOrdered(a, b) ==
  LET d == a.e - b.e
      far == d > Significand + 3
      a8 == NShl(a.m, 3, Limbs + 1)
      wide == NShl(a.m, IF far THEN 0 ELSE d, 2 * Limbs)
      less == ~far /\ a.s # b.s /\ NLess(wide, b.m)
  IN  Round(IF less THEN b.s ELSE a.s,
            IF far THEN a.e - 3 ELSE b.e,
            IF far THEN (IF a.s = b.s THEN a8 ELSE NSub(a8, <<1>>))
            ELSE IF a.s = b.s THEN NAdd(wide, b.m)
            ELSE IF less THEN NSub(b.m, wide)
            ELSE NSub(wide, b.m),
            far, Significand)

\* a + b
Add(a, b) ==
  IF ~IsNum(a) \/ ~IsNum(b) THEN NotFinite
  ELSE IF a.s = 0 THEN b
  ELSE IF b.s = 0 THEN a
  ELSE AddOrdered(IF a.e >= b.e THEN a ELSE b, IF a.e >= b.e THEN b ELSE a)

\* a - b
Sub(a, b) == Add(a, Neg(b))

\* a * b
Mul(a, b) ==
  IF ~IsNum(a) \/ ~IsNum(b) THEN NotFinite
  ELSE IF a.s = 0 \/ b.s = 0 THEN Zero
  ELSE Round(a.s * b.s, a.e + b.e, NMul(a.m, b.m), FALSE, Significand)

\* a / b
Div(a, b) ==
  IF ~IsNum(a) \/ ~IsNum(b) \/ b.s = 0 THEN NotFinite
  ELSE IF a.s = 0 THEN Zero
  ELSE LET qr == NDiv(a.m, b.m)
       IN  Round(a.s * b.s, a.e - b.e - Limbs * Width, qr[1],
                 ~NIsZero(qr[2]), Significand)

\* the value a Float32Array element holds after a is stored in it
Fround(a) == IF IsNum(a) THEN Round(a.s, a.e, a.m, FALSE, Single) ELSE a

\* |a| < |b| for a # 0 and b # 0
MagLess(a, b) == a.e < b.e \/ (a.e = b.e /\ NLess(a.m, b.m))

\* a < b
Lt(a, b) ==
  /\ IsNum(a) /\ IsNum(b)
  /\ IF a.s # b.s THEN a.s < b.s
     ELSE IF a.s = 1 THEN MagLess(a, b)
     ELSE IF a.s = -1 THEN MagLess(b, a)
     ELSE FALSE

\* a <= b
Le(a, b) == IsNum(a) /\ IsNum(b) /\ (a = b \/ Lt(a, b))

\* the decimal literal n / 10^d: Dec(42, 2) is 0.42
Dec(n, d) == Div(Num(n), Num(10 ^ d))

\* the power of two 2^k
TwoTo(k) == [s |-> 1, e |-> k - (Significand - 1), m |-> <<0, 0, 0, 2 ^ 10>>]

One == TwoTo(0)
Two == TwoTo(1)
Three == [s |-> 1, e |-> 1 - (Significand - 1), m |-> <<0, 0, 0, 3 * 2 ^ 9>>]
Six == [Three EXCEPT !.e = @ + 1]

---------------------------------------------------------------------------
(* Tuning constants, src/src/index.js lines 9-15                           *)

NEWTON_ITERATIONS == 4

NEWTON_MIN_SLOPE == Dec(1, 3)

SUBDIVISION_PRECISION == Dec(1, 7)
SUBDIVISION_MAX_ITERATIONS == 10

kSplineTableSize == 11
kSampleStepSize == Div(One, Sub(Num(kSplineTableSize), One))

---------------------------------------------------------------------------
(* Curve evaluator, lines 19-29                                            *)

A(aA1, aA2) == Add(Sub(One, Mul(Three, aA2)), Mul(Three, aA1))
B(aA1, aA2) == Sub(Mul(Three, aA2), Mul(Six, aA1))
C(aA1) == Mul(Three, aA1)

\* x(t) given t, x1 and x2, or y(t) given t, y1 and y2
calcBezier(aT, aA1, aA2) ==
  Mul(Add(Mul(Add(Mul(A(aA1, aA2), aT), B(aA1, aA2)), aT), C(aA1)), aT)

\* dx/dt given t, x1 and x2
getSlope(aT, aA1, aA2) ==
  Add(Add(Mul(Mul(Mul(Three, A(aA1, aA2)), aT), aT),
          Mul(Mul(Two, B(aA1, aA2)), aT)),
      C(aA1))

---------------------------------------------------------------------------
(* State                                                                   *)

VARIABLES
  float32ArraySupported,  \* line 17: fixed when the module is loaded
  easings,                \* the closures the factory has returned, in order
  frame                   \* the one activation that is running, or Idle

vars == <<float32ArraySupported, easings, frame>>

\* what a read of an untouched slot of a fresh table yields
FreshSlot == IF float32ArraySupported THEN Zero ELSE Undefined

\* the conversion a store into the table applies
StoreSample(v) == IF float32ArraySupported THEN Fround(v) ELSE v

\* sampleValues[i], the array being indexed from 0
At(sampleValues, i) == sampleValues[i + 1]

\* line 63 with 0 < mX1 for 0 <= mX1
ValidXOpen(mX1, mX2) ==
  Lt(Zero, mX1) /\ Le(mX1, One) /\ Le(Zero, mX2) /\ Le(mX2, One)

\* the test of line 63 (negated there)
ValidX(mX1, mX2) ==
  Le(Zero, mX1) /\ Le(mX1, One) /\ Le(Zero, mX2) /\ Le(mX2, One)

\* lines 72 and 121 with the x's compared with each other, and the y's
LinearCrossed(mX1, mY1, mX2, mY2) == mX1 = mX2 /\ mY1 = mY2

\* the test of lines 72 and 121 (negated at line 72)
Linear(mX1, mY1, mX2, mY2) == mX1 = mY1 /\ mX2 = mY2

Idle ==
  [op |-> "idle", pc |-> "idle", self |-> 0,
   args |-> <<Zero, Zero, Zero, Zero>>,
   x |-> Zero, intervalStart |-> Zero, currentSample |-> 0,
   guessForT |-> Zero, initialSlope |-> Zero, aGuessT |-> Zero, i |-> 0,
   aA |-> Zero, aB |-> Zero, currentT |-> Zero, currentX |-> Zero,
   t |-> Zero, ret |-> Zero,
   \* what the activation has done so far
   branch |-> "none", advances |-> 0, passes |-> 0, reads |-> 0, writes |-> 0,
   divides |-> 0, zeroDivides |-> 0]

---------------------------------------------------------------------------
(* Inputs                                                                  *)

\* how many easing functions the program holds at once
MaxInstances == 2

\* the largest Number below 1
BelowOne == Sub(One, TwoTo(-53))

\* valid curves whose table is built
NonLinearCurves ==
  { <<Dec(42, 2), Zero, Dec(58, 2), One>>,          \* ease-in-out
    <<Zero, Dec(5, 1), One, Dec(5, 1)>>,            \* dx/dt = 0 at both ends
    <<One, Zero, Zero, One>>,                       \* dx/dt = 0 at t = 1/2
    <<One, Two, Dec(9, 1), Neg(One)>>,              \* y overshoots
    <<Dec(25, 2), Dec(1, 1), Dec(25, 2), One>>,     \* ease
    <<One, Zero, TwoTo(-53), One>> }                \* x2 = 2^-53

\* valid curves with x1 = y1 and x2 = y2
LinearCurves ==
  { <<Zero, Zero, One, One>>, <<Dec(5, 1), Dec(5, 1), Dec(5, 1), Dec(5, 1)>> }

\* control points the factory refuses
InvalidCurves ==
  { <<Neg(Dec(1, 1)), Zero, Dec(5, 1), One>>,
    <<Dec(5, 1), Zero, Dec(11, 1), One>>,
    <<Neg(TwoTo(-60)), Zero, Dec(5, 1), One>>,
    <<Dec(5, 1), Zero, Add(One, TwoTo(-52)), One>>,
    <<Dec(11, 1), Dec(11, 1), Dec(5, 1), Dec(5, 1)>>,
    <<Neg(Dec(1, 1)), Two, Dec(11, 1), Neg(One)>> }

\* the arguments of a call of the factory when n easing functions exist: any
\* curve for the first, a few for the later ones
FactoryInputs(n) ==
  IF n = 0 THEN NonLinearCurves \cup LinearCurves \cup InvalidCurves
  ELSE { <<One, Zero, Zero, One>>, <<Zero, Zero, One, One>>,
         <<Dec(5, 1), Zero, Dec(11, 1), One>> }

\* the arguments of a call of an easing function
EasingInputs ==
  { Zero, One, Dec(5, 1), Dec(5005, 4), Dec(46, 6), Dec(3, 1), Dec(73, 2),
    Dec(1, 3), BelowOne, Neg(Dec(1, 2)), Dec(101, 2) }

---------------------------------------------------------------------------
(* The factory, lines 62-80                                                *)

\* line 69: the array as allocated
FreshTable == [j \in 1..kSplineTableSize |-> FreshSlot]

\* line 78 without the loop counter: every sample is taken at t = 0.1
FillSampleAtStep(sampleValues, i, mX1, mX2) ==
  [sampleValues EXCEPT ![i + 1] =
     StoreSample(calcBezier(kSampleStepSize, mX1, mX2))]

\* line 78: one pass of the loop body
FillSample(sampleValues, i, mX1, mX2) ==
  [sampleValues EXCEPT ![i + 1] =
     StoreSample(calcBezier(Mul(Num(i), kSampleStepSize), mX1, mX2))]

\* lines 77-79: the loop from i on
RECURSIVE FillFrom(_, _, _, _)
FillFrom(sampleValues, i, mX1, mX2) ==
  IF i < kSplineTableSize
    THEN FillFrom(FillSample(sampleValues, i, mX1, mX2), i + 1, mX1, mX2)
    ELSE sampleValues

\* lines 69-80: the table a call of the factory leaves behind
BuildTable(mX1, mY1, mX2, mY2) ==
  IF ~Linear(mX1, mY1, mX2, mY2) THEN FillFrom(FreshTable, 0, mX1, mX2)
  ELSE FreshTable

\* the closure: the control points and the table it closes over
Closure(a, sampleValues) ==
  [mX1 |-> a[1], mY1 |-> a[2], mX2 |-> a[3], mY2 |-> a[4],
   sampleValues |-> sampleValues]

\* line 69 outside the factory: one table, which the last call of the
\* factory has filled
TableOfLatest(k) == easings[Len(easings)].sampleValues

\* the table the closure numbered k reads
TableOf(k) == easings[k].sampleValues

\* lines 63-65: the arguments are refused
BezierThrow(a) ==
  /\ frame.pc = "idle"
  /\ ~ValidX(a[1], a[3])
  /\ frame' = [Idle EXCEPT !.op = "bezier", !.pc = "threw", !.args = a]
  /\ UNCHANGED <<float32ArraySupported, easings>>

\* lines 63-72: the arguments pass, the array is allocated, and the loop is
\* entered unless the curve is the diagonal
BezierEnter(a) ==
  /\ frame.pc = "idle"
  /\ ValidX(a[1], a[3])
  /\ Len(easings) < MaxInstances
  /\ easings' = Append(easings, Closure(a, FreshTable))
  /\ frame' = [Idle EXCEPT !.op = "bezier", !.args = a,
                           !.self = Len(easings) + 1, !.i = 0,
                           !.pc = IF ~Linear(a[1], a[2], a[3], a[4])
                                    THEN "fill" ELSE "constructed"]
  /\ UNCHANGED float32ArraySupported

\* lines 77-79: one iteration of the loop
BezierFill ==
  /\ frame.pc = "fill"
  /\ frame.i < kSplineTableSize
  /\ easings' = [easings EXCEPT ![frame.self].sampleValues =
                   FillSample(@, frame.i, frame.args[1], frame.args[3])]
  /\ frame' = [frame EXCEPT !.i = @ + 1, !.writes = @ + 1,
                            !.pc = IF frame.i + 1 < kSplineTableSize
                                     THEN "fill" ELSE "constructed"]
  /\ UNCHANGED float32ArraySupported

\* the caller of the factory goes on, with the closure or the exception
BezierReturn ==
  /\ frame.pc \in {"threw", "constructed"}
  /\ frame' = Idle
  /\ UNCHANGED <<float32ArraySupported, easings>>

---------------------------------------------------------------------------
(* The easing function, lines 83-136.  Each step of a call is an operator  *)
(* of the activation fr and the closure e it runs in.                      *)

lastSample == kSplineTableSize - 1

\* lines 118-135 without the test of line 132
BezierEasingEntryNoRightEnd(k, x, e) ==
  LET fr == [Idle EXCEPT !.op = "BezierEasing", !.self = k, !.x = x]
  IN  IF Linear(e.mX1, e.mY1, e.mX2, e.mY2)
        THEN [fr EXCEPT !.pc = "returned", !.ret = x]
      ELSE IF x = Zero THEN [fr EXCEPT !.pc = "returned", !.ret = Zero]
      ELSE [fr EXCEPT !.pc = "scan", !.intervalStart = Zero,
                      !.currentSample = 1]

\* lines 118-135 up to the call of getTForX, and lines 84-86
BezierEasingEntry(k, x, e) ==
  LET fr == [Idle EXCEPT !.op = "BezierEasing", !.self = k, !.x = x]
  IN  IF Linear(e.mX1, e.mY1, e.mX2, e.mY2)
        THEN [fr EXCEPT !.pc = "returned", !.ret = x]
      ELSE IF x = Zero THEN [fr EXCEPT !.pc = "returned", !.ret = Zero]
      ELSE IF x = One THEN [fr EXCEPT !.pc = "returned", !.ret = One]
      ELSE [fr EXCEPT !.pc = "scan", !.intervalStart = Zero,
                      !.currentSample = 1]

\* line 89 with < for <=
ScanContinuesStrict(fr, e) ==
  /\ fr.currentSample # lastSample
  /\ Lt(At(e.sampleValues, fr.currentSample), fr.x)

\* line 89: the condition of the scan
ScanContinues(fr, e) ==
  /\ fr.currentSample # lastSample
  /\ Le(At(e.sampleValues, fr.currentSample), fr.x)

\* lines 89-92: the scan moves one interval to the right
ScanAdvanceStep(fr, e) ==
  [fr EXCEPT !.intervalStart = Add(@, kSampleStepSize),
             !.currentSample = @ + 1,
             !.advances = @ + 1, !.reads = @ + 1]

\* lines 108-115 with <= 0.0 for === 0.0 at line 110
SelectBranchZeroOrBelow(fr, guessForT, initialSlope, byZero, diverges) ==
  LET seeded == [fr EXCEPT !.currentSample = @ - 1,
                           !.guessForT = guessForT,
                           !.initialSlope = initialSlope,
                           !.reads = @ + 3, !.divides = @ + 1,
                           !.zeroDivides = IF byZero THEN @ + 1 ELSE @]
  IN  IF diverges
        THEN [seeded EXCEPT !.branch = "newton", !.pc = "returned",
                            !.ret = NotFinite]
      ELSE IF Le(NEWTON_MIN_SLOPE, initialSlope)
        THEN [seeded EXCEPT !.branch = "newton", !.pc = "newton",
                            !.aGuessT = guessForT, !.i = 0]
      ELSE IF Le(initialSlope, Zero)
        THEN [seeded EXCEPT !.branch = "zero", !.pc = "solved",
                            !.t = guessForT]
      ELSE [seeded EXCEPT !.branch = "subdivide", !.pc = "subdivide",
                          !.aA = fr.intervalStart,
                          !.aB = Add(fr.intervalStart, kSampleStepSize),
                          !.i = 0]

\* lines 108-115: the branch the slope at the seed selects, on the
\* activation as line 95 and lines 101-106 leave it
SelectBranch(fr, guessForT, initialSlope, byZero, diverges) ==
  LET seeded == [fr EXCEPT !.currentSample = @ - 1,
                           !.guessForT = guessForT,
                           !.initialSlope = initialSlope,
                           !.reads = @ + 3, !.divides = @ + 1,
                           !.zeroDivides = IF byZero THEN @ + 1 ELSE @]
  IN  IF diverges
        THEN [seeded EXCEPT !.branch = "newton", !.pc = "returned",
                            !.ret = NotFinite]
      ELSE IF Le(NEWTON_MIN_SLOPE, initialSlope)
        THEN [seeded EXCEPT !.branch = "newton", !.pc = "newton",
                            !.aGuessT = guessForT, !.i = 0]
      ELSE IF initialSlope = Zero
        THEN [seeded EXCEPT !.branch = "zero", !.pc = "solved",
                            !.t = guessForT]
      ELSE [seeded EXCEPT !.branch = "subdivide", !.pc = "subdivide",
                          !.aA = fr.intervalStart,
                          !.aB = Add(fr.intervalStart, kSampleStepSize),
                          !.i = 0]

\* line 106: the slope at the seed
SlopeAtSeed(fr, e, guessForT, byZero, slopeIsPlusInfinity) ==
  SelectBranch(fr, guessForT, getSlope(guessForT, e.mX1, e.mX2),
               byZero, slopeIsPlusInfinity)

\* lines 101-104: the seed, from x - sample[i] and sample[i+1] - sample[i].
\* With an unassigned sample dist, the seed and its slope are NaN, which
\* fails both tests of the slope.  With equal samples dist is an infinity
\* and so is the seed: its slope is +Infinity when both infinite terms of
\* getSlope are positive, and then every value newtonRaphsonIterate
\* computes, and the result of the call, is NaN; otherwise the slope is
\* -Infinity or NaN and fails both tests.
Seed(fr, e, above, width, isNaN) ==
  LET byZero == ~isNaN /\ width = Zero
      sign == IF Lt(above, Zero) THEN -1 ELSE 1
  IN  SlopeAtSeed(fr, e,
                  Add(fr.intervalStart,
                      Mul(Div(above, width), kSampleStepSize)),
                  byZero,
                  /\ byZero
                  /\ above # Zero
                  /\ A(e.mX1, e.mX2).s = 1
                  /\ sign * B(e.mX1, e.mX2).s = 1)

\* lines 95-115: the scan is over; the seed, its slope, and the branch
InterpolateStep(fr, e) ==
  LET lower == At(e.sampleValues, fr.currentSample - 1)
      upper == At(e.sampleValues, fr.currentSample)
  IN  Seed(fr, e, Sub(fr.x, lower), Sub(upper, lower),
           lower = Undefined \/ upper = Undefined)

\* lines 53-58: the test of the slope, and the step
NewtonUpdate(fr, currentSlope, currentX) ==
  LET aGuessT == Sub(fr.aGuessT, Div(currentX, currentSlope))
      last == ~(fr.i + 1 < NEWTON_ITERATIONS)
  IN  IF currentSlope = Zero
        THEN [fr EXCEPT !.pc = "solved", !.t = fr.aGuessT]
        ELSE [fr EXCEPT !.currentX = currentX, !.aGuessT = aGuessT,
                        !.i = @ + 1, !.passes = @ + 1, !.divides = @ + 1,
                        !.pc = IF last THEN "solved" ELSE "newton",
                        !.t = IF last THEN aGuessT ELSE @]

\* lines 51-59: one iteration of newtonRaphsonIterate
NewtonStep(fr, e) ==
  NewtonUpdate(fr, getSlope(fr.aGuessT, e.mX1, e.mX2),
               Sub(calcBezier(fr.aGuessT, e.mX1, e.mX2), fr.x))

\* lines 39-45 with <= for < at line 45
HalveOneMore(fr, currentT, currentX, imprecise) ==
  LET i == IF imprecise THEN fr.i + 1 ELSE fr.i
      again == imprecise /\ i <= SUBDIVISION_MAX_ITERATIONS
  IN  [fr EXCEPT !.currentT = currentT, !.currentX = currentX,
                 !.aA = IF Lt(Zero, currentX) THEN @ ELSE currentT,
                 !.aB = IF Lt(Zero, currentX) THEN currentT ELSE @,
                 !.i = i, !.passes = @ + 1, !.divides = @ + 1,
                 !.pc = IF again THEN "subdivide" ELSE "solved",
                 !.t = IF again THEN @ ELSE currentT]

\* lines 39-45: the half that holds x is kept, and the loop goes on or not
Halve(fr, currentT, currentX, imprecise) ==
  LET i == IF imprecise THEN fr.i + 1 ELSE fr.i
      again == imprecise /\ i < SUBDIVISION_MAX_ITERATIONS
  IN  [fr EXCEPT !.currentT = currentT, !.currentX = currentX,
                 !.aA = IF Lt(Zero, currentX) THEN @ ELSE currentT,
                 !.aB = IF Lt(Zero, currentX) THEN currentT ELSE @,
                 !.i = i, !.passes = @ + 1, !.divides = @ + 1,
                 !.pc = IF again THEN "subdivide" ELSE "solved",
                 !.t = IF again THEN @ ELSE currentT]

\* line 45: the test of the precision
SubdivideAt(fr, currentT, currentX) ==
  Halve(fr, currentT, currentX, Lt(SUBDIVISION_PRECISION, Abs(currentX)))

\* lines 35-46: one iteration of binarySubdivide
SubdivideStep(fr, e) ==
  LET currentT == Add(fr.aA, Div(Sub(fr.aB, fr.aA), Two))
  IN  SubdivideAt(fr, currentT,
                  Sub(calcBezier(currentT, e.mX1, e.mX2), fr.x))

\* line 135: the y of the solved parameter
EvalYStep(fr, e) ==
  [fr EXCEPT !.pc = "returned", !.ret = calcBezier(fr.t, e.mY1, e.mY2)]

\* the next step of a call that has not returned
CallStep(fr, e) ==
  CASE fr.pc = "scan" ->
         IF ScanContinues(fr, e) THEN ScanAdvanceStep(fr, e)
         ELSE InterpolateStep(fr, e)
    [] fr.pc = "newton" -> NewtonStep(fr, e)
    [] fr.pc = "subdivide" -> SubdivideStep(fr, e)
    [] fr.pc = "solved" -> EvalYStep(fr, e)

\* a call run from fr to its return
RECURSIVE RunCall(_, _)
RunCall(fr, e) ==
  IF fr.pc = "returned" THEN fr ELSE RunCall(CallStep(fr, e), e)

\* the closure numbered k as the running call sees it
Self(k) == [easings[k] EXCEPT !.sampleValues = TableOf(k)]

\* line 121-122: the curve is the diagonal
BezierEasingLinear(k, x) ==
  /\ frame.pc = "idle"
  /\ k \in 1..Len(easings)
  /\ Linear(easings[k].mX1, easings[k].mY1, easings[k].mX2, easings[k].mY2)
  /\ frame' = BezierEasingEntry(k, x, Self(k))
  /\ UNCHANGED <<float32ArraySupported, easings>>

\* lines 127-134: the two ends
BezierEasingBoundary(k, x) ==
  /\ frame.pc = "idle"
  /\ k \in 1..Len(easings)
  /\ ~Linear(easings[k].mX1, easings[k].mY1, easings[k].mX2, easings[k].mY2)
  /\ x \in {Zero, One}
  /\ frame' = BezierEasingEntry(k, x, Self(k))
  /\ UNCHANGED <<float32ArraySupported, easings>>

\* line 135: getTForX is called
BezierEasingSolve(k, x) ==
  /\ frame.pc = "idle"
  /\ k \in 1..Len(easings)
  /\ ~Linear(easings[k].mX1, easings[k].mY1, easings[k].mX2, easings[k].mY2)
  /\ x \notin {Zero, One}
  /\ frame' = BezierEasingEntry(k, x, Self(k))
  /\ UNCHANGED <<float32ArraySupported, easings>>

ScanAdvance ==
  /\ frame.pc = "scan"
  /\ ScanContinues(frame, Self(frame.self))
  /\ frame' = ScanAdvanceStep(frame, Self(frame.self))
  /\ UNCHANGED <<float32ArraySupported, easings>>

Interpolate ==
  /\ frame.pc = "scan"
  /\ ~ScanContinues(frame, Self(frame.self))
  /\ frame' = InterpolateStep(frame, Self(frame.self))
  /\ UNCHANGED <<float32ArraySupported, easings>>

NewtonRaphsonIterate ==
  /\ frame.pc = "newton"
  /\ frame' = NewtonStep(frame, Self(frame.self))
  /\ UNCHANGED <<float32ArraySupported, easings>>

BinarySubdivide ==
  /\ frame.pc = "subdivide"
  /\ frame' = SubdivideStep(frame, Self(frame.self))
  /\ UNCHANGED <<float32ArraySupported, easings>>

EvalY ==
  /\ frame.pc = "solved"
  /\ frame' = EvalYStep(frame, Self(frame.self))
  /\ UNCHANGED <<float32ArraySupported, easings>>

\* the caller of the easing function goes on with the result
BezierEasingReturn ==
  /\ frame.op = "BezierEasing"
  /\ frame.pc = "returned"
  /\ frame' = Idle
  /\ UNCHANGED <<float32ArraySupported, easings>>

---------------------------------------------------------------------------
(* The program                                                             *)

Init ==
  /\ float32ArraySupported \in BOOLEAN
  /\ easings = <<>>
  /\ frame = Idle

Next ==
  \/ \E a \in FactoryInputs(Len(easings)) : BezierThrow(a)
  \/ \E a \in FactoryInputs(Len(easings)) : BezierEnter(a)
  \/ BezierFill
  \/ BezierReturn
  \/ \E k \in 1..Len(easings), x \in EasingInputs : BezierEasingLinear(k, x)
  \/ \E k \in 1..Len(easings), x \in EasingInputs : BezierEasingBoundary(k, x)
  \/ \E k \in 1..Len(easings), x \in EasingInputs : BezierEasingSolve(k, x)
  \/ ScanAdvance
  \/ Interpolate
  \/ NewtonRaphsonIterate
  \/ BinarySubdivide
  \/ EvalY
  \/ BezierEasingReturn

Spec == Init /\ [][Next]_vars

\* the steps of an activation that has begun
Progress ==
  \/ BezierFill
  \/ BezierReturn
  \/ ScanAdvance
  \/ Interpolate
  \/ NewtonRaphsonIterate
  \/ BinarySubdivide
  \/ EvalY
  \/ BezierEasingReturn

\* an activation has begun and not yet handed over its result
Running == frame.pc # "idle"

\* The program is single-threaded and synchronous: an activation that has
\* begun runs on to its return.  This is WF_vars(Progress) written out:
\* in every state the program reaches with frame.pc # "idle" one action of
\* Progress can be taken, and it changes frame, so that
\* ENABLED <<Progress>>_vars is Running.
FairSpec == Spec /\ ([]<>(~Running) \/ []<><<Progress>>_vars)

---------------------------------------------------------------------------
(* What the claims speak of                                                *)

\* the closure the running call belongs to
Callee == easings[frame.self]

InCall == frame.op = "BezierEasing"

OnDiagonal(e) == e.mX1 = e.mY1 /\ e.mX2 = e.mY2

\* the call is in the solver, past the interval search, with its seed
Seeded == InCall /\ frame.branch # "none"

\* 0 < x < 1
Inside(x) == Lt(Zero, x) /\ Lt(x, One)

\* the decimal numbers of the claims
Tenth == Dec(1, 1)
Thousandth == Dec(1, 3)
Millionth == Dec(1, 6)
TenMillionth == Dec(1, 7)

\* 0.1 + ... + 0.1, i times, from 0
RECURSIVE TenthsAdded(_)
TenthsAdded(i) == IF i = 0 THEN Zero ELSE Add(TenthsAdded(i - 1), Tenth)

\* what the call f(x) returns when it is made alone, right after f was
\* constructed from the control points of e
AloneResult(e, x) ==
  LET alone == Closure(<<e.mX1, e.mY1, e.mX2, e.mY2>>,
                       BuildTable(e.mX1, e.mY1, e.mX2, e.mY2))
  IN  RunCall(BezierEasingEntry(0, x, alone), alone).ret

---------------------------------------------------------------------------
(* C1 *)

\* C1: the factory fails with the invalid-argument error if and only if x1
\* or x2 lies outside [0,1], whatever y1 and y2 are, and it fails before any
\* entry of the sample table is computed (and before a table exists).
C1_ThrowsIffOutside ==
  frame.op = "bezier" =>
    LET a == frame.args
        outside == Lt(a[1], Zero) \/ Lt(One, a[1])
                     \/ Lt(a[3], Zero) \/ Lt(One, a[3])
    IN  /\ (frame.pc = "threw") <=> outside
        /\ outside => frame.writes = 0 /\ frame.self = 0
        /\ ~outside => frame.self = Len(easings)

\* a curve whose y overshoots was accepted, and a later call of the factory
\* with x2 > 1 has failed
C1_Witness ==
  /\ frame.pc = "threw"
  /\ Lt(One, frame.args[3])
  /\ Len(easings) = 1
  /\ Lt(One, easings[1].mY1)

(* C2 *)

\* C2: for every valid curve, on the diagonal or not, f(0) = 0 and f(1) = 1
\* exactly, and off the diagonal the call returns without a read of the
\* table and without a step of the parameter solver.
C2_EndpointsExact ==
  InCall /\ frame.x \in {Zero, One} =>
    /\ frame.pc = "returned"
    /\ frame.ret = frame.x
    /\ frame.branch = "none"
    /\ frame.reads = 0 /\ frame.advances = 0 /\ frame.passes = 0

\* f(1) has returned 1 for a curve off the diagonal
C2_Witness ==
  /\ InCall /\ frame.pc = "returned"
  /\ ~OnDiagonal(Callee)
  /\ frame.x = One /\ frame.ret = One

(* C3 *)

\* C3: if x1 = y1 and x2 = y2 the factory stores nothing in the table, and
\* every call returns its input, in [0,1] or not, without a read of the
\* table and without a step of the solver.
C3_DiagonalIsIdentity ==
  /\ frame.op = "bezier" /\ frame.args[1] = frame.args[2]
        /\ frame.args[3] = frame.args[4]
       => frame.writes = 0 /\ frame.pc # "fill"
  /\ \A k \in 1..Len(easings) :
       OnDiagonal(easings[k]) =>
         \A j \in 1..kSplineTableSize : easings[k].sampleValues[j] = FreshSlot
  /\ InCall /\ OnDiagonal(Callee) =>
       /\ frame.pc = "returned"
       /\ frame.ret = frame.x
       /\ frame.branch = "none"
       /\ frame.reads = 0 /\ frame.advances = 0 /\ frame.passes = 0

\* a curve on the diagonal was called with an input above 1
C3_Witness ==
  /\ InCall /\ frame.pc = "returned"
  /\ OnDiagonal(Callee)
  /\ Lt(One, frame.x) /\ frame.ret = frame.x

(* C4 *)

\* C4: for a valid curve off the diagonal and x in [0,1], the t that
\* getTForX returns satisfies |calcBezier(t, x1, x2) - x| <= 0.000001,
\* whichever branch produced it.
C4_SolverPrecision ==
  InCall /\ frame.pc = "solved" /\ Le(Zero, frame.x) /\ Le(frame.x, One) =>
    Le(Abs(Sub(calcBezier(frame.t, Callee.mX1, Callee.mX2), frame.x)),
       Millionth)

(* C5 *)

\* the loops of a call stay within their counts, a bisection that stops
\* before its tenth pass has reached the precision, and a call that has not
\* returned has a step to take
C5_Counts ==
  InCall =>
    /\ frame.advances <= 9
    /\ frame.branch = "newton" => frame.passes <= 4
    /\ frame.branch = "zero" => frame.passes = 0
    /\ frame.branch = "subdivide" => frame.passes <= 10
    /\ frame.branch = "subdivide" /\ frame.pc \in {"solved", "returned"} =>
         /\ frame.passes >= 1
         /\ frame.passes < 10 => Le(Abs(frame.currentX), TenMillionth)
    /\ frame.pc # "returned" => CallStep(frame, Callee) # frame

\* C5: every call of an easing function returns, for any curve and any x:
\* the scan advances at most 9 times, Newton-Raphson runs at most 4 passes,
\* and the bisection at least 1 and at most 10, stopping before the tenth
\* only when |calcBezier(mid, x1, x2) - x| <= 0.0000001.
C5_Terminates == [](C5_Counts) /\ [](InCall => <>(frame.pc = "returned"))

\* a bisection has returned after its tenth pass with the precision missed
C5_Witness ==
  /\ InCall /\ frame.pc = "returned"
  /\ frame.branch = "subdivide" /\ frame.passes = 10
  /\ Lt(TenMillionth, Abs(frame.currentX))

(* C6 *)

\* when the factory returns, every table is the one its control points
\* give, and a call returns what it returns when made alone
C6_SameAsAlone ==
  /\ frame.pc = "constructed" =>
       \A k \in 1..Len(easings) :
         easings[k].sampleValues =
           BuildTable(easings[k].mX1, easings[k].mY1,
                      easings[k].mX2, easings[k].mY2)
  /\ InCall /\ frame.pc = "returned" =>
       frame.ret = AloneResult(Callee, frame.x)

\* C6: no call of an easing function changes a table or a control point,
\* a call of the factory changes no easing function but the one it makes,
\* and whatever was called or constructed before, f(x) returns what it
\* returns when called alone right after f was constructed.
C6_CallsArePure ==
  /\ [](C6_SameAsAlone)
  /\ [][ /\ InCall \/ frame'.op = "BezierEasing" => easings' = easings
         /\ \A k \in 1..Len(easings) :
              /\ Len(easings') >= Len(easings)
              /\ k # frame'.self => easings'[k] = easings[k]
              /\ easings'[k].mX1 = easings[k].mX1
              /\ easings'[k].mY1 = easings[k].mY1
              /\ easings'[k].mX2 = easings[k].mX2
              /\ easings'[k].mY2 = easings[k].mY2 ]_vars

\* the first of two easing functions with different tables has run its
\* solver and returned
C6_Witness ==
  /\ InCall /\ frame.pc = "returned" /\ frame.self = 1
  /\ frame.branch = "newton"
  /\ Len(easings) = 2
  /\ ~OnDiagonal(easings[2])
  /\ easings[1].sampleValues # easings[2].sampleValues

(* C7 *)

\* C7: for a valid curve off the diagonal and 0 < x < 1, getTForX returns
\* a t with 0 <= t <= 1, from Newton-Raphson as from the other branches,
\* and the bisection returns a t inside the interval it was given.
C7_TInUnitInterval ==
  InCall /\ frame.pc = "solved" /\ Inside(frame.x) =>
    /\ Le(Zero, frame.t) /\ Le(frame.t, One)
    /\ frame.branch = "subdivide" =>
         /\ Le(frame.intervalStart, frame.t)
         /\ Le(frame.t, Add(frame.intervalStart, kSampleStepSize))

(* C8 *)

\* the index the search ends with
SearchIndexIsLargest ==
  LET i == frame.currentSample
      sampleValues == Callee.sampleValues
  IN  /\ i \in 0..9
      /\ Le(At(sampleValues, i), frame.x)
      /\ \A j \in 0..9 : Le(At(sampleValues, j), frame.x) => j <= i

\* C8, as stated: for 0 < x < 1 the search ends with the largest i in 0..9
\* with sample[i] <= x and with intervalStart = i * 0.1, sample[i] <= x <=
\* sample[i+1], and the seed lies in [i * 0.1, (i + 1) * 0.1].
C8_AsStated ==
  Seeded /\ Inside(frame.x) =>
    LET i == frame.currentSample
    IN  /\ SearchIndexIsLargest
        /\ frame.intervalStart = Mul(Num(i), Tenth)
        /\ Le(frame.x, At(Callee.sampleValues, i + 1))
        /\ Le(Mul(Num(i), Tenth), frame.guessForT)
        /\ Le(frame.guessForT, Mul(Num(i + 1), Tenth))

\* C8, amended: for 0 < x < 1 the search ends with the largest i in 0..9
\* with sample[i] <= x; intervalStart is 0.1 added i times to 0, which is
\* within 2^-52 of i * 0.1; x <= sample[i+1] if i < 9 or the table is a
\* Float32Array; the seed is intervalStart + dist * 0.1 and is no less
\* than intervalStart; it is no more than intervalStart + 0.1 if x <=
\* sample[i+1], and no less than that if x > sample[10].
C8_SearchAndSeed ==
  Seeded /\ Inside(frame.x) =>
    LET i == frame.currentSample
        lower == At(Callee.sampleValues, i)
        upper == At(Callee.sampleValues, i + 1)
    IN  /\ SearchIndexIsLargest
        /\ frame.intervalStart = TenthsAdded(i)
        /\ Le(Abs(Sub(frame.intervalStart, Mul(Num(i), Tenth))), TwoTo(-52))
        /\ i < 9 \/ float32ArraySupported => Le(frame.x, upper)
        /\ frame.guessForT =
             Add(frame.intervalStart,
                 Mul(Div(Sub(frame.x, lower), Sub(upper, lower)), Tenth))
        /\ Le(frame.intervalStart, frame.guessForT)
        /\ Le(frame.x, upper) =>
             Le(frame.guessForT, Add(frame.intervalStart, Tenth))
        /\ Lt(upper, frame.x) =>
             Le(Add(frame.intervalStart, Tenth), frame.guessForT)

\* the search has ended at i = 8 with an intervalStart that is not 8 * 0.1
C8_Witness ==
  /\ Seeded /\ Inside(frame.x)
  /\ frame.currentSample = 8
  /\ frame.intervalStart # Mul(Num(8), Tenth)

(* C9 *)

\* the branch is the one the slope at the seed selects, and the bisection
\* starts on the interval of the search
BranchFollowsSlope ==
  LET slope == getSlope(frame.guessForT, Callee.mX1, Callee.mX2)
  IN  /\ frame.initialSlope = slope
      /\ frame.branch = "newton" <=> Le(Thousandth, slope)
      /\ frame.branch = "zero" <=> slope = Zero
      /\ frame.branch = "subdivide" <=> ~Le(Thousandth, slope) /\ slope # Zero
      /\ frame.branch = "zero" /\ frame.pc \in {"solved", "returned"} =>
           frame.t = frame.guessForT /\ frame.passes = 0
      /\ frame.branch = "subdivide" /\ frame.passes = 0 =>
           /\ frame.aA = frame.intervalStart
           /\ frame.aB = Add(frame.intervalStart, kSampleStepSize)

\* C9, as stated: one branch is taken, Newton-Raphson if the slope at the
\* seed is >= 0.001, the seed itself if it is 0, the bisection otherwise,
\* and the bisection only with a slope that is positive and below 0.001:
\* the slope at the seed is never negative.
C9_AsStated ==
  Seeded =>
    /\ BranchFollowsSlope
    /\ Le(Zero, frame.initialSlope)
    /\ frame.branch = "subdivide" =>
         Lt(Zero, frame.initialSlope) /\ Lt(frame.initialSlope, Thousandth)

\* C9, amended: one branch is taken, Newton-Raphson if the slope at the
\* seed is >= 0.001, the seed itself if it is 0, and the bisection, on the
\* interval of the search, for every other slope, the negative ones
\* included.
C9_BranchFromSlope == Seeded => BranchFollowsSlope

\* the bisection runs for a valid curve and 0 < x < 1 with a negative slope
\* at the seed
C9_Witness ==
  /\ Seeded /\ Inside(frame.x)
  /\ frame.branch = "subdivide"
  /\ Lt(frame.initialSlope, Zero)

(* C10 *)

\* C10: no call of an easing function off the diagonal divides by zero:
\* the samples around the seed differ, and a pass of Newton-Raphson that
\* finds the slope 0 returns its t without a division.
C10_NoDivisionByZero ==
  InCall =>
    /\ frame.zeroDivides = 0
    /\ Seeded =>
         At(Callee.sampleValues, frame.currentSample + 1)
           # At(Callee.sampleValues, frame.currentSample)
    /\ frame.pc = "newton" =>
         LET currentX == Sub(calcBezier(frame.aGuessT, Callee.mX1,
                                        Callee.mX2), frame.x)
             next == NewtonUpdate(frame, Zero, currentX)
         IN  /\ next.pc = "solved"
             /\ next.t = frame.aGuessT
             /\ next.divides = frame.divides
             /\ getSlope(frame.aGuessT, Callee.mX1, Callee.mX2) = Zero =>
                  NewtonStep(frame, Callee) = next

\* a call has returned after the division of the seed and four of
\* Newton-Raphson
C10_Witness ==
  /\ InCall /\ frame.pc = "returned"
  /\ frame.branch = "newton"
  /\ frame.divides = 5
  /\ frame.zeroDivides = 0

=============================================================================
